---- MODULE Spec2Model ----
(***************************************************************************)
(* The batch loop of main.py with its two thread-pool fan-outs             *)
(* (prepare_file_for_textract, process_textract_result), the Textract      *)
(* waiter and harvester of utils/aws_utils.py, the ChatGPT steps of        *)
(* utils/chatgpt_utils.py and the per-batch teardown.                      *)
(*                                                                         *)
(* A document is identified by its position in the input listing; its base *)
(* name, S3 key, temporary PDF path and output directory are all derived   *)
(* from it by get_file_paths.  wait_for_completion is modelled from its    *)
(* body in utils/aws_utils.py, which takes the job id only: the retry      *)
(* ceiling and the delay that main.py passes are not read by that body.    *)
(***************************************************************************)
EXTENDS Integers, Sequences, FiniteSets, TLC

\* ---------------------------------------------------------------- bounds
NumFiles == 3       \* eligible files in INPUT_DIR
MaxPolls == 3       \* cap on the status queries of one job explored by the model
MaxPages == 2       \* cap on the result pages of one job
MaxItems == 5       \* longest list handed to split_into_batches
MaxSize == 3        \* largest batch size handed to split_into_batches
MaxResponses == 2   \* most result responses Textract holds for one job
MaxBlocks == 2      \* most Blocks in one result response
MaxWorkers == 2     \* largest pool size of the pools followed on their own
MaxTasks == 3       \* largest batch handed to the pools followed on their own

\* ------------------------------------------------- program configuration
batch_size == 2     \* BATCH_SIZE
max_threads == 2    \* MAX_THREADS
max_retries == 2    \* TEXTRACT_MAX_RETRIES

VARIABLES
    mainpc,      \* position of the main thread in the batch loop
    batch_index, \* 1-based index of the batch being processed
    jobs,        \* JobTable of the current batch: base_name -> job_info
    p1,          \* per document: position of its prepare_file_for_textract task
    error1,      \* per document: the step whose exception its preparation caught
    p2,          \* per document: position of its process_textract_result task
    JobStatus,   \* per document: status of its job at Textract
    polls,       \* per document: status queries issued by wait_for_completion
    sleeps,      \* per document: time.sleep calls made by wait_for_completion
    statuses,    \* per document: the statuses its queries returned, in order
    outcome,     \* per document: what wait_for_completion returned
    fetches,     \* per document: result pages fetched by the harvester
    artifacts,   \* per document: files present in its output directory
    outdirs,     \* output directories that exist
    tmp,         \* converted PDFs present in TMP_DIR
    bucket,      \* keys present in the S3 bucket
    deleted,     \* per batch: keys removed by that batch's teardown
    wiped,       \* per batch: number of times clean_tmp_folder ran for it
    purged,      \* per batch: number of times delete_all_files_in_bucket ran for it
    trace,       \* per document: the steps of its chain, in the order they started
    extracted,   \* per document: the extract_entities_with_chatgpt calls made for it
    input_ok,    \* INPUT_DIR is set and is a directory
    \* one call of split_into_batches
    sb_items, sb_size, sb_batches, sb_pc,
    \* one call of extract_and_save_text_and_coords against a scripted Textract
    hv_responses, hv_pages, hv_calls, hv_lines, hv_words, hv_pc,
    \* phase 1 of one batch of files with any names
    fp_batch, fp_done, fp_writes, fp_jobs, fp_pc,
    \* the two thread pools of one batch, with any pool size and batch size
    pl_workers, pl_tasks, pl_state, pl_phase

pipeline_vars == <<mainpc, batch_index, jobs, p1, error1, p2, JobStatus, polls,
                   sleeps, statuses, outcome, fetches, artifacts, outdirs, tmp, bucket,
                   deleted, wiped, purged, trace, extracted, input_ok>>

split_vars == <<sb_items, sb_size, sb_batches, sb_pc>>

harvest_vars == <<hv_responses, hv_pages, hv_calls, hv_lines, hv_words, hv_pc>>

paths_vars == <<fp_batch, fp_done, fp_writes, fp_jobs, fp_pc>>

pool_vars == <<pl_workers, pl_tasks, pl_state, pl_phase>>

vars == <<pipeline_vars, split_vars, harvest_vars, paths_vars, pool_vars>>

Docs == 1..NumFiles

\* main.py:135-138: the listing keeps .jpg/.jpeg/.pdf/.png/.tiff files; every
\* second file of the listing is taken to be a PDF already.
files == [i \in Docs |-> <<i, IF i % 2 = 0 THEN ".pdf" ELSE ".jpg">>]

Min(a, b) == IF a < b THEN a ELSE b

\* mutant: range(0, len(items) - batch_size + 1, batch_size): a last batch that
\* is not full is not yielded
split_into_batches_DropsPartialBatch(items, size) ==
    LET starts == {i \in 0..(Len(items) - 1) : i % size = 0 /\ i + size <= Len(items)}
    IN  [k \in 1..Cardinality(starts) |->
            SubSeq(items, (k - 1) * size + 1, Min(k * size, Len(items)))]

\* mutant: items[i:i + batch_size + 1]: a batch also holds the first item of
\* the next one
split_into_batches_Overlapping(items, size) ==
    LET starts == {i \in 0..(Len(items) - 1) : i % size = 0}
    IN  [k \in 1..Cardinality(starts) |->
            SubSeq(items, (k - 1) * size + 1, Min(k * size + 1, Len(items)))]

\* helpers.py:8-11: range(0, len(items), batch_size), items[i:i + batch_size]
split_into_batches(items, size) ==
    LET starts == {i \in 0..(Len(items) - 1) : i % size = 0}
    IN  [k \in 1..Cardinality(starts) |->
            SubSeq(items, (k - 1) * size + 1, Min(k * size, Len(items)))]

batches == split_into_batches(files, batch_size)

NumBatches == Len(batches)

\* helpers.py:13-29
get_file_paths(filename) ==
    [base_name      |-> filename[1],
     pdf_file       |-> filename[1],
     s3_pdf_key     |-> filename[1],
     doc_output_dir |-> filename[1]]

\* the documents (base names) of batch b
BatchDocs(b) == {get_file_paths(batches[b][i]).base_name : i \in 1..Len(batches[b])}

BatchOf(d) == CHOOSE b \in 1..NumBatches : d \in BatchDocs(b)

current_batch == IF batch_index \in 1..NumBatches THEN BatchDocs(batch_index) ELSE {}

IsPdf(d) == files[d][2] = ".pdf"

Update(f, d, v) == [f EXCEPT ![d] = v]

\* the chain of document d with the step that starts now (a step that is
\* repeated, a further status query or result page, is recorded once)
Started(d, step) ==
    IF trace[d] # <<>> /\ trace[d][Len(trace[d])] = step
    THEN trace
    ELSE Update(trace, d, Append(trace[d], step))

\* mutant: a submitted task starts at once, whatever the pool size
WorkerFree_Always(running, workers) == TRUE

\* main.py:150, 162: ThreadPoolExecutor(max_workers=max_threads): a submitted
\* task waits in the pool's queue until one of its workers is idle
WorkerFree(running, workers) == running < workers

\* tasks a ThreadPoolExecutor worker is executing
Running1 == {d \in Docs : p1[d] \in {"convert", "upload", "submit"}}
Running2 == {d \in Docs : p2[d] \in {"poll", "sleep", "fetch", "correct",
                                     "extract_corrected", "extract_raw"}}
Finished1 == {"ok", "failed", "raised"}
Finished2 == {"done", "raised"}

\* main.py:14-47: the state of the script before its first check
PipelineInit ==
    /\ mainpc = "setup"
    /\ batch_index = 1
    /\ jobs = <<>>
    /\ p1 = [d \in Docs |-> "none"]
    /\ error1 = [d \in Docs |-> "none"]
    /\ p2 = [d \in Docs |-> "none"]
    /\ JobStatus = [d \in Docs |-> "none"]
    /\ polls = [d \in Docs |-> 0]
    /\ sleeps = [d \in Docs |-> 0]
    /\ statuses = [d \in Docs |-> <<>>]
    /\ outcome = [d \in Docs |-> "none"]
    /\ fetches = [d \in Docs |-> 0]
    /\ artifacts = [d \in Docs |-> {}]
    /\ outdirs = {}
    /\ tmp = {}
    /\ bucket = {}
    /\ deleted = [b \in 1..NumBatches |-> {}]
    /\ wiped = [b \in 1..NumBatches |-> 0]
    /\ purged = [b \in 1..NumBatches |-> 0]
    /\ trace = [d \in Docs |-> <<>>]
    /\ extracted = [d \in Docs |-> <<>>]

\* no call of split_into_batches is being followed
SplitIdle ==
    /\ sb_items = <<>>
    /\ sb_size = 1
    /\ sb_batches = <<>>
    /\ sb_pc = "idle"

\* no call of extract_and_save_text_and_coords is being followed
HarvestIdle ==
    /\ hv_responses = <<>>
    /\ hv_pages = <<>>
    /\ hv_calls = 0
    /\ hv_lines = <<>>
    /\ hv_words = <<>>
    /\ hv_pc = "idle"

\* no batch of files with arbitrary names is being followed
PathsIdle ==
    /\ fp_batch = <<>>
    /\ fp_done = {}
    /\ fp_writes = <<>>
    /\ fp_jobs = <<>>
    /\ fp_pc = "idle"

\* no thread pool of arbitrary size is being followed
PoolIdle ==
    /\ pl_workers = 1
    /\ pl_tasks = 0
    /\ pl_state = <<>>
    /\ pl_phase = "idle"

Init ==
    /\ PipelineInit
    /\ input_ok \in BOOLEAN
    /\ SplitIdle
    /\ HarvestIdle
    /\ PathsIdle
    /\ PoolIdle

\* mutant: the script goes on without looking at INPUT_DIR
InputDirUsable_Unchecked == TRUE

\* main.py:50: input_dir is set and os.path.isdir(input_dir)
InputDirUsable == input_ok

\* main.py:35-52, 135-139: the directories are made, the clients created; without
\* a usable INPUT_DIR the script logs an error and exits, otherwise it lists the
\* files and splits them into batches
Setup ==
    /\ mainpc = "setup"
    /\ mainpc' = IF ~InputDirUsable THEN "aborted"
                 ELSE IF NumBatches = 0 THEN "finished" ELSE "start_batch"
    /\ UNCHANGED <<batch_index, jobs, p1, error1, p2, JobStatus, polls, sleeps,
                   statuses, outcome, fetches, artifacts, outdirs, tmp, bucket,
                   deleted, wiped, purged, trace, extracted, input_ok>>
    /\ UNCHANGED <<split_vars, harvest_vars, paths_vars, pool_vars>>

\* ------------------------------------------------------------ phase 1
\* main.py:81-85: the JobRecord returned by a successful preparation
job_info(d) ==
    [job_id         |-> d,
     doc_output_dir |-> get_file_paths(files[d]).doc_output_dir,
     s3_pdf_key     |-> get_file_paths(files[d]).s3_pdf_key]

\* mutant: the Textract job is started before the PDF is uploaded
NextPrepareStep_SubmitBeforeUpload(step) ==
    CASE step = "convert" -> "submit"
      [] step = "submit"  -> "upload"
      [] step = "upload"  -> "ok"

\* main.py:69-85: the order of the statements of prepare_file_for_textract:
\* conversion (or none for a PDF), upload_file_to_s3, start_textract_job, return
NextPrepareStep(step) ==
    CASE step = "convert" -> "upload"
      [] step = "upload"  -> "submit"
      [] step = "submit"  -> "ok"

\* mutant: the exception of a step is swallowed at the step and the function
\* goes on to the submission
PrepareOnError_GoesOn == "submit"

\* mutant: the exception of a preparation step leaves prepare_file_for_textract
PrepareOnError_Raises == "raised"

\* main.py:86-88: except Exception -> log, return None
PrepareOnError == "failed"

\* blob store upload(localPath, key): on success the key is in the bucket
upload_file_to_s3(b, key) == b \cup {key}

\* blob store: every key listed in the bucket is deleted
delete_all_files_in_bucket(b) == {}

\* main.py:145-153: the next iteration of the for loop: jobs = {}, a new pool, one
\* preparation submitted per file of the batch.  The pools, futures and call
\* frames of the previous iteration no longer exist, so what was recorded about
\* its tasks (positions, waiter counters, results) is dropped; files, bucket and
\* Textract jobs stay as they are.
StartBatch ==
    /\ mainpc = "start_batch"
    /\ jobs' = <<>>
    /\ p1' = [d \in Docs |-> IF d \in current_batch THEN "queued" ELSE "none"]
    /\ error1' = [d \in Docs |-> "none"]
    /\ p2' = [d \in Docs |-> "none"]
    /\ polls' = [d \in Docs |-> 0]
    /\ sleeps' = [d \in Docs |-> 0]
    /\ statuses' = [d \in Docs |-> <<>>]
    /\ outcome' = [d \in Docs |-> "none"]
    /\ fetches' = [d \in Docs |-> 0]
    /\ trace' = [d \in Docs |-> <<>>]
    /\ extracted' = [d \in Docs |-> <<>>]
    /\ mainpc' = "phase1"
    /\ UNCHANGED <<batch_index, JobStatus, artifacts, outdirs, tmp, bucket, deleted, wiped>>
    /\ UNCHANGED <<purged, input_ok>>
    /\ UNCHANGED <<split_vars, harvest_vars, paths_vars, pool_vars>>

\* a pool worker takes the task; main.py:63-67: get_file_paths, makedirs
Start1(d) ==
    /\ p1[d] = "queued"
    /\ WorkerFree(Cardinality(Running1), max_threads)
    /\ p1' = Update(p1, d, "convert")
    /\ error1' = error1
    /\ outdirs' = outdirs \cup {get_file_paths(files[d]).doc_output_dir}
    /\ UNCHANGED <<mainpc, batch_index, jobs, p2, JobStatus, polls,
                   sleeps, statuses, outcome, fetches, artifacts, tmp, bucket,
                   deleted, wiped>>
    /\ UNCHANGED <<purged, trace, extracted, input_ok>>
    /\ UNCHANGED <<split_vars, harvest_vars, paths_vars, pool_vars>>

\* main.py:69-75, helpers.py:31-45: convert_to_pdf unless the file is a PDF
Convert(d) ==
    /\ p1[d] = "convert"
    /\ trace' = IF IsPdf(d) THEN trace ELSE Started(d, "convert")
    /\ \E ok \in BOOLEAN :
         IF IsPdf(d)
         THEN /\ ok
              /\ p1' = Update(p1, d, NextPrepareStep("convert"))
              /\ tmp' = tmp
              /\ error1' = error1
         ELSE IF ok
              THEN /\ p1' = Update(p1, d, NextPrepareStep("convert"))
                   /\ tmp' = tmp \cup {get_file_paths(files[d]).pdf_file}
                   /\ error1' = error1
              ELSE /\ p1' = Update(p1, d, PrepareOnError)
                   /\ tmp' = tmp
                   /\ error1' = Update(error1, d, "convert")
    /\ UNCHANGED <<mainpc, batch_index, jobs, p2, JobStatus, polls,
                   sleeps, statuses, outcome, fetches, artifacts, outdirs, bucket,
                   deleted, wiped>>
    /\ UNCHANGED <<purged, extracted, input_ok>>
    /\ UNCHANGED <<split_vars, harvest_vars, paths_vars, pool_vars>>

\* main.py:77
Upload(d) ==
    /\ p1[d] = "upload"
    /\ trace' = Started(d, "upload")
    /\ \E ok \in BOOLEAN :
         IF ok
         THEN /\ p1' = Update(p1, d, NextPrepareStep("upload"))
              /\ bucket' = upload_file_to_s3(bucket, get_file_paths(files[d]).s3_pdf_key)
              /\ error1' = error1
         ELSE /\ p1' = Update(p1, d, PrepareOnError)
              /\ bucket' = bucket
              /\ error1' = Update(error1, d, "upload")
    /\ UNCHANGED <<mainpc, batch_index, jobs, p2, JobStatus, polls,
                   sleeps, statuses, outcome, fetches, artifacts, outdirs, tmp,
                   deleted, wiped>>
    /\ UNCHANGED <<purged, extracted, input_ok>>
    /\ UNCHANGED <<split_vars, harvest_vars, paths_vars, pool_vars>>

\* main.py:79-85, aws_utils.py:116-120: start_textract_job, return the JobRecord
Submit(d) ==
    /\ p1[d] = "submit"
    /\ trace' = Started(d, "submit")
    /\ \E ok \in BOOLEAN :
         IF ok
         THEN /\ p1' = Update(p1, d, NextPrepareStep("submit"))
              /\ JobStatus' = Update(JobStatus, d, "IN_PROGRESS")
              /\ error1' = error1
         ELSE /\ p1' = Update(p1, d, PrepareOnError)
              /\ JobStatus' = JobStatus
              /\ error1' = Update(error1, d, "submit")
    /\ UNCHANGED <<mainpc, batch_index, jobs, p2, polls, sleeps,
                   statuses, outcome, fetches, artifacts, outdirs, tmp, bucket,
                   deleted, wiped>>
    /\ UNCHANGED <<purged, extracted, input_ok>>
    /\ UNCHANGED <<split_vars, harvest_vars, paths_vars, pool_vars>>

\* mutant: the second fan-out starts as soon as one preparation has completed
Phase1Drained_FirstCompleted == \E d \in current_batch : p1[d] \in Finished1

\* main.py:152-158: every future of the batch has completed, so the as_completed
\* loop can be exhausted and the with block left
Phase1Drained == \A d \in current_batch : p1[d] \in Finished1

\* main.py:154-158: future.result() of every preparation; a result that is not
\* None is stored under its base name
collect_jobs ==
    [x \in {get_file_paths(files[d]).base_name : d \in {e \in current_batch : p1[e] = "ok"}}
        |-> job_info(x)]

\* main.py:152-163: the phase-1 pool joins; future.result() re-raises what a
\* task raised; otherwise one process_textract_result per entry of jobs is
\* submitted to the second pool
Phase1Join ==
    /\ mainpc = "phase1"
    /\ Phase1Drained
    /\ IF \E d \in current_batch : p1[d] = "raised"
       THEN /\ mainpc' = "crashed"
            /\ UNCHANGED <<jobs, p2>>
       ELSE /\ jobs' = collect_jobs
            /\ p2' = [d \in Docs |-> IF d \in DOMAIN collect_jobs THEN "queued" ELSE p2[d]]
            /\ mainpc' = "phase2"
    /\ UNCHANGED <<batch_index, p1, error1, JobStatus, polls, sleeps, statuses,
                   outcome, fetches, artifacts, outdirs, tmp, bucket, deleted, wiped>>
    /\ UNCHANGED <<purged, trace, extracted, input_ok>>
    /\ UNCHANGED <<split_vars, harvest_vars, paths_vars, pool_vars>>

\* ------------------------------------------------------------ phase 2
\* mutant: the task takes its entry out of the table: jobs.pop(base_name)
Start2_TakesEntry(d) ==
    /\ p2[d] = "queued"
    /\ WorkerFree(Cardinality(Running2), max_threads)
    /\ p2' = Update(p2, d, "poll")
    /\ jobs' = [k \in DOMAIN jobs \ {d} |-> jobs[k]]
    /\ UNCHANGED <<mainpc, batch_index, p1, error1, JobStatus, polls,
                   sleeps, statuses, outcome, fetches, artifacts, outdirs, tmp,
                   bucket, deleted, wiped>>
    /\ UNCHANGED <<purged, trace, extracted, input_ok>>
    /\ UNCHANGED <<split_vars, harvest_vars, paths_vars, pool_vars>>

\* a pool worker takes the task; main.py:97-100
Start2(d) ==
    /\ p2[d] = "queued"
    /\ WorkerFree(Cardinality(Running2), max_threads)
    /\ p2' = Update(p2, d, "poll")
    /\ UNCHANGED <<mainpc, batch_index, jobs, p1, error1, JobStatus, polls,
                   sleeps, statuses, outcome, fetches, artifacts, outdirs, tmp,
                   bucket, deleted, wiped>>
    /\ UNCHANGED <<purged, trace, extracted, input_ok>>
    /\ UNCHANGED <<split_vars, harvest_vars, paths_vars, pool_vars>>

\* mutant: the waiter does not return on SUCCEEDED
wait_for_completion_MissesSuccess(status) ==
    IF status = "FAILED" THEN "Failed" ELSE "sleep"

\* mutant: the waiter treats FAILED like IN_PROGRESS
wait_for_completion_MissesFailure(status) ==
    IF status = "SUCCEEDED" THEN "Succeeded" ELSE "sleep"

\* aws_utils.py:128-134: the branch on JobStatus; "Succeeded" is return True,
\* "Failed" is return False, "sleep" is time.sleep(5) and another iteration
wait_for_completion(status) ==
    IF status = "SUCCEEDED" THEN "Succeeded"
    ELSE IF status = "FAILED" THEN "Failed"
    ELSE "sleep"

\* mutant: the result of the waiter is not tested
process_textract_result_AlwaysHarvests(result) == "fetch"

\* main.py:102: if wait_for_completion(...): harvest, else return
process_textract_result(result) ==
    IF result = "Succeeded" THEN "fetch" ELSE "done"

\* what a status query can return for job d: a terminal status is final, an
\* IN_PROGRESS job may have reached a terminal status since the last query
PossibleStatus(d) ==
    IF JobStatus[d] = "IN_PROGRESS" THEN {"IN_PROGRESS", "SUCCEEDED", "FAILED"}
    ELSE {JobStatus[d]}

\* aws_utils.py:126-133: one iteration of the while True loop up to the sleep;
\* the query itself can raise (network, throttling)
Poll(d) ==
    /\ p2[d] = "poll"
    /\ polls[d] < MaxPolls
    /\ polls' = Update(polls, d, polls[d] + 1)
    /\ trace' = Started(d, "poll")
    /\ \/ /\ p2' = Update(p2, d, "raised")
          /\ UNCHANGED <<statuses, outcome, JobStatus>>
       \/ \E status \in PossibleStatus(d) :
            LET r == wait_for_completion(status)
            IN  /\ JobStatus' = Update(JobStatus, d, status)
                /\ statuses' = Update(statuses, d, Append(statuses[d], status))
                /\ IF r = "sleep"
                   THEN /\ p2' = Update(p2, d, "sleep")
                        /\ outcome' = outcome
                   ELSE /\ p2' = Update(p2, d, process_textract_result(r))
                        /\ outcome' = Update(outcome, d, r)
    /\ UNCHANGED <<mainpc, batch_index, jobs, p1, error1, sleeps,
                   fetches, artifacts, outdirs, tmp, bucket, deleted, wiped>>
    /\ UNCHANGED <<purged, extracted, input_ok>>
    /\ UNCHANGED <<split_vars, harvest_vars, paths_vars, pool_vars>>

\* aws_utils.py:134: time.sleep(5), then the next iteration
Sleep(d) ==
    /\ p2[d] = "sleep"
    /\ sleeps' = Update(sleeps, d, sleeps[d] + 1)
    /\ p2' = Update(p2, d, "poll")
    /\ UNCHANGED <<mainpc, batch_index, jobs, p1, error1, JobStatus, polls,
                   statuses, outcome, fetches, artifacts, outdirs, tmp, bucket,
                   deleted, wiped>>
    /\ UNCHANGED <<purged, trace, extracted, input_ok>>
    /\ UNCHANGED <<split_vars, harvest_vars, paths_vars, pool_vars>>

\* the number of result responses Textract holds for document d: between 1 and
\* MaxPages, not the same for the documents of a batch
ResultPages(d) == 1 + (d % MaxPages)

\* aws_utils.py:67-112: one get_document_text_detection call of the harvester;
\* the response carries a NextToken ("more") when it is not the document's last
\* one ("last"), or the call raises; after the last page <id>.raw.txt and
\* <id>.coords.json are written
extract_and_save_text_and_coords(d) ==
    /\ p2[d] = "fetch"
    /\ fetches' = Update(fetches, d, fetches[d] + 1)
    /\ trace' = Started(d, "harvest")
    /\ \E r \in {"raise", "more", "last"} :
         /\ r = "more" => fetches[d] + 1 < ResultPages(d)
         /\ r = "last" => fetches[d] + 1 = ResultPages(d)
         /\ p2' = Update(p2, d, CASE r = "raise" -> "raised"
                                  [] r = "more"  -> "fetch"
                                  [] r = "last"  -> "correct")
         /\ artifacts' = IF r = "last"
                         THEN Update(artifacts, d, artifacts[d] \cup {"raw.txt", "coords.json"})
                         ELSE artifacts
    /\ UNCHANGED <<mainpc, batch_index, jobs, p1, error1, JobStatus, polls,
                   sleeps, statuses, outcome, outdirs, tmp, bucket,
                   deleted, wiped>>
    /\ UNCHANGED <<purged, extracted, input_ok>>
    /\ UNCHANGED <<split_vars, harvest_vars, paths_vars, pool_vars>>

\* mutant: without a corrected text the document is left as it is
AfterCorrection_GivesUp(corrected) ==
    IF corrected THEN "extract_corrected" ELSE "done"

\* main.py:112, 130-132: if corrected_path and os.path.exists(corrected_path):
\* go on with the corrected text, else with the raw text
AfterCorrection(corrected) ==
    IF corrected THEN "extract_corrected" ELSE "extract_raw"

\* main.py:106-112, chatgpt_utils.py:6-63: correct_text_with_chatgpt returns the
\* path of <id>.corrected.txt, or None when the call failed
Correct(d) ==
    /\ p2[d] = "correct"
    /\ trace' = Started(d, "correct")
    /\ \E ok \in BOOLEAN :
         /\ artifacts' = IF ok
                         THEN Update(artifacts, d, artifacts[d] \cup {"corrected.txt"})
                         ELSE artifacts
         /\ p2' = Update(p2, d, AfterCorrection(ok))
    /\ UNCHANGED <<mainpc, batch_index, jobs, p1, error1, JobStatus, polls,
                   sleeps, statuses, outcome, fetches, outdirs, tmp, bucket,
                   deleted, wiped>>
    /\ UNCHANGED <<purged, extracted, input_ok>>
    /\ UNCHANGED <<split_vars, harvest_vars, paths_vars, pool_vars>>

\* mutant: the output that does not decode is dropped
extract_entities_with_chatgpt_DropsUnparsed(res) ==
    IF res = "json" THEN {"entities.json"} ELSE {}

\* chatgpt_utils.py:105-124: what extract_entities_with_chatgpt writes: "json":
\* json.loads accepted the output (whatever JSON value it is), "unparsed": it
\* raised JSONDecodeError, "error": the call itself failed; None is returned in
\* the last two cases and nothing is raised in any
extract_entities_with_chatgpt(res) ==
    CASE res = "json"     -> {"entities.json"}
      [] res = "unparsed" -> {"entities_raw.txt"}
      [] res = "error"    -> {}

\* mutant: the letter split is made after either branch
SplitArtifacts_Always(branch) == {"combined_output.json"}

\* main.py:117-128: extract_page_and_split_letters and <id>.combined_output.json
\* are inside the branch taken with a corrected text; the else branch
\* (main.py:130-132) has neither
SplitArtifacts(branch) ==
    IF branch = "extract_corrected" THEN {"combined_output.json"} ELSE {}

\* main.py:113-128 with the corrected text (entities, then the letter split and
\* <id>.combined_output.json), main.py:130-132 with the raw text
Extract(d) ==
    /\ p2[d] \in {"extract_corrected", "extract_raw"}
    /\ trace' = Started(d, "extract")
    /\ \E res \in {"json", "unparsed", "error"} :
         /\ artifacts' = Update(artifacts, d,
                                artifacts[d] \cup extract_entities_with_chatgpt(res)
                                   \cup SplitArtifacts(p2[d]))
         /\ extracted' = Update(extracted, d,
                                Append(extracted[d],
                                       [text   |-> IF p2[d] = "extract_corrected"
                                                   THEN "corrected" ELSE "raw",
                                        result |-> res]))
    /\ p2' = Update(p2, d, "done")
    /\ UNCHANGED <<mainpc, batch_index, jobs, p1, error1, JobStatus, polls,
                   sleeps, statuses, outcome, fetches, outdirs, tmp, bucket,
                   deleted, wiped>>
    /\ UNCHANGED <<purged, input_ok>>
    /\ UNCHANGED <<split_vars, harvest_vars, paths_vars, pool_vars>>

\* mutant: the second pool is left when the first of its tasks has completed
Phase2Drained_FirstCompleted ==
    DOMAIN jobs # {} => \E d \in DOMAIN jobs : p2[d] \in Finished2

\* mutant: the second pool is left without waiting for its tasks
Phase2Drained_NoWait == TRUE

\* main.py:162-165: every future of the second pool has completed
Phase2Drained == \A d \in DOMAIN jobs : p2[d] \in Finished2

\* main.py:162-165: the phase-2 pool joins (ThreadPoolExecutor.__exit__ waits for
\* every submitted task); future.result() re-raises what a task raised, and
\* nothing in the batch loop catches it
Phase2Join ==
    /\ mainpc = "phase2"
    /\ Phase2Drained
    /\ mainpc' = IF \E d \in DOMAIN jobs : p2[d] = "raised"
                 THEN "crashed" ELSE "clean_tmp"
    /\ UNCHANGED <<batch_index, jobs, p1, error1, p2, JobStatus, polls, sleeps,
                   statuses, outcome, fetches, artifacts, outdirs, tmp, bucket,
                   deleted, wiped>>
    /\ UNCHANGED <<purged, trace, extracted, input_ok>>
    /\ UNCHANGED <<split_vars, harvest_vars, paths_vars, pool_vars>>

\* ------------------------------------------------------------ teardown
\* mutant: the two cleanup calls stand after the for loop, not in its body: the
\* loop goes on to the next batch with nothing wiped or deleted
clean_tmp_folder_AfterTheLoop ==
    /\ mainpc = "clean_tmp"
    /\ batch_index' = batch_index + 1
    /\ mainpc' = IF batch_index < NumBatches THEN "start_batch" ELSE "finished"
    /\ UNCHANGED <<jobs, p1, error1, p2, JobStatus, polls, sleeps, statuses,
                   outcome, fetches, artifacts, outdirs, tmp, bucket, deleted, wiped>>
    /\ UNCHANGED <<purged, trace, extracted, input_ok>>
    /\ UNCHANGED <<split_vars, harvest_vars, paths_vars, pool_vars>>

\* main.py:167, helpers.py:47-58
clean_tmp_folder ==
    /\ mainpc = "clean_tmp"
    /\ tmp' = {}
    /\ wiped' = Update(wiped, batch_index, wiped[batch_index] + 1)
    /\ mainpc' = "delete_bucket"
    /\ UNCHANGED <<batch_index, jobs, p1, error1, p2, JobStatus, polls, sleeps,
                   statuses, outcome, fetches, artifacts, outdirs, bucket, deleted>>
    /\ UNCHANGED <<purged, trace, extracted, input_ok>>
    /\ UNCHANGED <<split_vars, harvest_vars, paths_vars, pool_vars>>

\* main.py:168, then the next iteration of the for loop (main.py:145) or the end
DeleteBucket ==
    /\ mainpc = "delete_bucket"
    /\ bucket' = delete_all_files_in_bucket(bucket)
    /\ deleted' = Update(deleted, batch_index, bucket \ bucket')
    /\ purged' = Update(purged, batch_index, purged[batch_index] + 1)
    /\ batch_index' = batch_index + 1
    /\ mainpc' = IF batch_index < NumBatches THEN "start_batch" ELSE "finished"
    /\ UNCHANGED <<jobs, p1, error1, p2, JobStatus, polls, sleeps, statuses,
                   outcome, fetches, artifacts, outdirs, tmp, wiped>>
    /\ UNCHANGED <<trace, extracted, input_ok>>
    /\ UNCHANGED <<split_vars, harvest_vars, paths_vars, pool_vars>>

Next ==
    \/ Setup
    \/ StartBatch
    \/ \E d \in Docs : Start1(d)
    \/ \E d \in Docs : Convert(d)
    \/ \E d \in Docs : Upload(d)
    \/ \E d \in Docs : Submit(d)
    \/ Phase1Join
    \/ \E d \in Docs : Start2(d)
    \/ \E d \in Docs : Poll(d)
    \/ \E d \in Docs : Sleep(d)
    \/ \E d \in Docs : extract_and_save_text_and_coords(d)
    \/ \E d \in Docs : Correct(d)
    \/ \E d \in Docs : Extract(d)
    \/ Phase2Join
    \/ clean_tmp_folder
    \/ DeleteBucket

Spec == Init /\ [][Next]_vars

\* the threads are scheduled and the calls to the services return: a step that
\* can be taken is taken
SpecFair == Spec /\ WF_vars(Next)

\* ------------------------------------------------------------ split_into_batches
\* the items of the lists handed to split_into_batches
ItemValues == {"a", "b"}

\* the lists of at most n items
ListsUpTo(n) == UNION {[1..k -> ItemValues] : k \in 0..n}

\* a call split_into_batches(items, batch_size) with any list of at most MaxItems
\* items and any batch size in 1..MaxSize is about to be made; the script is at
\* its start
SplitInit ==
    /\ PipelineInit
    /\ input_ok = TRUE
    /\ HarvestIdle
    /\ PathsIdle
    /\ PoolIdle
    /\ sb_items \in ListsUpTo(MaxItems)
    /\ sb_size \in 1..MaxSize
    /\ sb_batches = <<>>
    /\ sb_pc = "call"

\* main.py:139: list(split_into_batches(files, batch_size)): the generator of
\* helpers.py:8-11 is run to its end
SplitCall ==
    /\ sb_pc = "call"
    /\ sb_batches' = split_into_batches(sb_items, sb_size)
    /\ sb_pc' = "returned"
    /\ UNCHANGED <<sb_items, sb_size>>
    /\ UNCHANGED <<pipeline_vars, harvest_vars, paths_vars, pool_vars>>

NextSplit == SplitCall

SpecSplit == SplitInit /\ [][NextSplit]_vars

\* ------------------------------------------------------------ file names
\* the names before the extension of the files in INPUT_DIR
Stems == {"a", "b", "c"}

\* main.py:137: the extensions the listing keeps
Extensions == {".jpg", ".jpeg", ".pdf", ".png", ".tiff"}

\* a directory holds a file name once: the files of a batch are distinct names
FileNames == Stems \X Extensions

\* phase 1 of a batch of two distinct files is about to start; the script is at
\* its start
PathsInit ==
    /\ PipelineInit
    /\ input_ok = TRUE
    /\ SplitIdle
    /\ HarvestIdle
    /\ PoolIdle
    /\ fp_batch \in {b \in FileNames \X FileNames : b[1] # b[2]}
    /\ fp_done = {}
    /\ fp_writes = <<>>
    /\ fp_jobs = <<>>
    /\ fp_pc = "phase1"

\* main.py:158: jobs[base_name] = info
StoreJob(table, base_name, info) ==
    [k \in DOMAIN table \cup {base_name} |-> IF k = base_name THEN info ELSE table[k]]

\* main.py:63-85, 154-158: the preparation of the i-th file of the batch, all
\* its steps succeeding: the paths it derives from the file name, the temporary
\* PDF it writes (unless the file is a PDF), the key it uploads to, and its
\* JobRecord stored in jobs by the main thread; the preparations of a batch
\* complete in any order
PathsPrepare(i) ==
    /\ fp_pc = "phase1"
    /\ i \in 1..Len(fp_batch)
    /\ i \notin fp_done
    /\ LET paths == get_file_paths(fp_batch[i])
       IN  /\ fp_writes' = StoreJob(fp_writes, i,
                               [base_name  |-> paths.base_name,
                                tmp_files  |-> IF fp_batch[i][2] # ".pdf"
                                               THEN {paths.pdf_file} ELSE {},
                                s3_pdf_key |-> paths.s3_pdf_key])
           /\ fp_jobs' = StoreJob(fp_jobs, paths.base_name,
                               [job_id         |-> i,
                                doc_output_dir |-> paths.doc_output_dir,
                                s3_pdf_key     |-> paths.s3_pdf_key])
    /\ fp_done' = fp_done \cup {i}
    /\ UNCHANGED <<fp_batch, fp_pc>>
    /\ UNCHANGED <<pipeline_vars, split_vars, harvest_vars, pool_vars>>

\* main.py:152-158: the first pool joins
PathsJoin ==
    /\ fp_pc = "phase1"
    /\ fp_done = 1..Len(fp_batch)
    /\ fp_pc' = "joined"
    /\ UNCHANGED <<fp_batch, fp_done, fp_writes, fp_jobs>>
    /\ UNCHANGED <<pipeline_vars, split_vars, harvest_vars, pool_vars>>

NextPaths ==
    \/ \E i \in 1..Len(fp_batch) : PathsPrepare(i)
    \/ PathsJoin

SpecPaths == PathsInit /\ [][NextPaths]_vars

\* ------------------------------------------------------------ the thread pools
\* the units of work of the batch that a worker is executing
PoolRunning == {t \in DOMAIN pl_state : pl_state[t] = "running"}

\* the first pool of a batch of any size up to MaxTasks has been created with any
\* max_workers up to MaxWorkers and one preparation per file has been submitted;
\* the script is at its start
PoolInit ==
    /\ PipelineInit
    /\ input_ok = TRUE
    /\ SplitIdle
    /\ HarvestIdle
    /\ PathsIdle
    /\ pl_workers \in 1..MaxWorkers
    /\ pl_tasks \in 1..MaxTasks
    /\ pl_state = [t \in 1..pl_tasks |-> "queued"]
    /\ pl_phase = "phase1"

\* an idle worker of the pool takes a queued unit of work
PoolTake(t) ==
    /\ pl_phase \in {"phase1", "phase2"}
    /\ t \in DOMAIN pl_state
    /\ pl_state[t] = "queued"
    /\ WorkerFree(Cardinality(PoolRunning), pl_workers)
    /\ pl_state' = [pl_state EXCEPT ![t] = "running"]
    /\ UNCHANGED <<pl_workers, pl_tasks, pl_phase>>
    /\ UNCHANGED <<pipeline_vars, split_vars, harvest_vars, paths_vars>>

\* main.py:54-88, 90-132: the unit of work returns: a preparation with a
\* JobRecord or with None, a process_textract_result with nothing
PoolReturn(t) ==
    /\ pl_phase \in {"phase1", "phase2"}
    /\ t \in DOMAIN pl_state
    /\ pl_state[t] = "running"
    /\ \E result \in (IF pl_phase = "phase1" THEN {"record", "none"} ELSE {"none"}) :
         pl_state' = [pl_state EXCEPT ![t] = result]
    /\ UNCHANGED <<pl_workers, pl_tasks, pl_phase>>
    /\ UNCHANGED <<pipeline_vars, split_vars, harvest_vars, paths_vars>>

\* main.py:152-165: the with block of a pool is left when all its units of work
\* have returned; after the first pool a second one of the same size is created
\* and one process_textract_result per JobRecord is submitted to it
PoolJoin ==
    /\ pl_phase \in {"phase1", "phase2"}
    /\ \A t \in DOMAIN pl_state : pl_state[t] \in {"record", "none"}
    /\ IF pl_phase = "phase1"
       THEN /\ pl_state' = [t \in {u \in DOMAIN pl_state : pl_state[u] = "record"}
                                |-> "queued"]
            /\ pl_phase' = "phase2"
       ELSE /\ pl_state' = pl_state
            /\ pl_phase' = "joined"
    /\ UNCHANGED <<pl_workers, pl_tasks>>
    /\ UNCHANGED <<pipeline_vars, split_vars, harvest_vars, paths_vars>>

NextPool ==
    \/ \E t \in 1..MaxTasks : PoolTake(t)
    \/ \E t \in 1..MaxTasks : PoolReturn(t)
    \/ PoolJoin

SpecPool == PoolInit /\ [][NextPool]_vars

\* ------------------------------------------------------------ the harvester
\* the Blocks Textract returns: detected lines and words
BlockValues ==
    {[BlockType |-> "LINE", Text |-> "a"],
     [BlockType |-> "LINE", Text |-> "b"],
     [BlockType |-> "WORD", Text |-> "a"]}

\* a result response: its Blocks, and its NextToken ("none": the key is absent)
Responses ==
    [Blocks    : UNION {[1..k -> BlockValues] : k \in 0..MaxBlocks},
     NextToken : {"none", "t"}]

\* what Textract holds for the job: the responses it returns to the successive
\* get_document_text_detection calls; the last one has no NextToken
ResponseScripts ==
    {rs \in UNION {[1..k -> Responses] : k \in 1..MaxResponses} :
        rs[Len(rs)].NextToken = "none"}

\* extract_and_save_text_and_coords is about to be called for a job with any of
\* these results; the script is at its start
HarvestInit ==
    /\ PipelineInit
    /\ input_ok = TRUE
    /\ SplitIdle
    /\ PathsIdle
    /\ PoolIdle
    /\ hv_responses \in ResponseScripts
    /\ hv_pages = <<>>
    /\ hv_calls = 0
    /\ hv_lines = <<>>
    /\ hv_words = <<>>
    /\ hv_pc = "call"

\* mutant: only the first response is read
HasNextToken_Never(response) == FALSE

\* aws_utils.py:79: response.get('NextToken')
HasNextToken(response) == response.NextToken # "none"

\* aws_utils.py:71-72: the first get_document_text_detection(JobId=job_id)
HarvestFirst ==
    /\ hv_pc = "call"
    /\ hv_calls' = 1
    /\ hv_pages' = <<hv_responses[1]>>
    /\ hv_pc' = "loop"
    /\ UNCHANGED <<hv_responses, hv_lines, hv_words>>
    /\ UNCHANGED <<pipeline_vars, split_vars, paths_vars, pool_vars>>

\* aws_utils.py:79-81: while response.get('NextToken'): fetch the next response
\* and append it to pages
HarvestNext ==
    /\ hv_pc = "loop"
    /\ HasNextToken(hv_pages[Len(hv_pages)])
    /\ hv_calls' = hv_calls + 1
    /\ hv_pages' = Append(hv_pages, hv_responses[hv_calls + 1])
    /\ UNCHANGED <<hv_responses, hv_lines, hv_words, hv_pc>>
    /\ UNCHANGED <<pipeline_vars, split_vars, paths_vars, pool_vars>>

\* aws_utils.py:90-100: for block in page['Blocks']: a LINE goes to lines, a WORD
\* to word_info
RECURSIVE ParseBlocks(_, _)
ParseBlocks(blocks, acc) ==
    IF blocks = <<>> THEN acc
    ELSE LET block == Head(blocks)
         IN  ParseBlocks(Tail(blocks),
                 IF block.BlockType = "LINE"
                 THEN [acc EXCEPT !.lines = Append(@, block.Text)]
                 ELSE IF block.BlockType = "WORD"
                 THEN [acc EXCEPT !.word_info = Append(@, block.Text)]
                 ELSE acc)

\* aws_utils.py:89: for page in pages
RECURSIVE ParsePages(_, _)
ParsePages(pages, acc) ==
    IF pages = <<>> THEN acc
    ELSE ParsePages(Tail(pages), ParseBlocks(Head(pages).Blocks, acc))

\* aws_utils.py:83-110: the loop has ended; the blocks of the pages are parsed
\* and the lines and the words are written
HarvestSave ==
    /\ hv_pc = "loop"
    /\ ~HasNextToken(hv_pages[Len(hv_pages)])
    /\ LET parsed == ParsePages(hv_pages, [lines |-> <<>>, word_info |-> <<>>])
       IN  /\ hv_lines' = parsed.lines
           /\ hv_words' = parsed.word_info
    /\ hv_pc' = "saved"
    /\ UNCHANGED <<hv_responses, hv_pages, hv_calls>>
    /\ UNCHANGED <<pipeline_vars, split_vars, paths_vars, pool_vars>>

NextHarvest ==
    \/ HarvestFirst
    \/ HarvestNext
    \/ HarvestSave

SpecHarvest == HarvestInit /\ [][NextHarvest]_vars

\* ------------------------------------------------------------ properties
key(d) == get_file_paths(files[d]).s3_pdf_key

\* the batch cycle that has just ended (its deletion was the last step taken)
CycleJustEnded == mainpc \in {"start_batch", "finished"} /\ batch_index > 1

\* spec 4.5 step 3: the keys of the documents of batch b whose raw text and
\* coordinates were persisted
CleanupSet(b) ==
    {key(d) : d \in {e \in BatchDocs(b) : {"raw.txt", "coords.json"} \subseteq artifacts[e]}}

\* C1: wait_for_completion issues at most max_retries status queries for a job,
\* whatever statuses the service returns.
C1_AtMostMaxRetriesQueries == \A d \in Docs : polls[d] <= max_retries

\* C2: when the k-th status query (k <= max_retries) is the first to return
\* SUCCEEDED and every earlier one returned IN_PROGRESS, the waiter returns
\* Succeeded and has issued exactly k queries, at that moment and ever after.
C2_SucceededOnTickK ==
    \A d \in Docs : \A k \in 1..Len(statuses[d]) :
        ( /\ k <= max_retries
          /\ statuses[d][k] = "SUCCEEDED"
          /\ \A j \in 1..(k - 1) : statuses[d][j] = "IN_PROGRESS" )
        => /\ outcome[d] = "Succeeded"
           /\ polls[d] = k
           /\ Len(statuses[d]) = k
           /\ p2[d] \notin {"poll", "sleep"}

C2_Witness ==
    \E d \in Docs :
        /\ statuses[d] = <<"IN_PROGRESS", "SUCCEEDED">>
        /\ outcome[d] = "Succeeded"
        /\ polls[d] = 2
        /\ p2[d] = "done"

\* C3: when the first max_retries status queries all returned IN_PROGRESS, the
\* waiter has returned TimedOut.
C3_TimedOutAtCeiling ==
    \A d \in Docs :
        ( /\ Len(statuses[d]) >= max_retries
          /\ \A j \in 1..max_retries : statuses[d][j] = "IN_PROGRESS" )
        => outcome[d] = "TimedOut"

\* C4: when a status query returns FAILED, the waiter returns Failed on that
\* tick: that query is its last one and no sleep follows it.
C4_FailedImmediately ==
    \A d \in Docs : \A k \in 1..Len(statuses[d]) :
        statuses[d][k] = "FAILED"
        => /\ outcome[d] = "Failed"
           /\ p2[d] = "done"
           /\ polls[d] = k
           /\ Len(statuses[d]) = k
           /\ sleeps[d] = k - 1

C4_Witness ==
    \E d \in Docs :
        /\ statuses[d] = <<"IN_PROGRESS", "FAILED">>
        /\ outcome[d] = "Failed"
        /\ sleeps[d] = 1
        /\ mainpc = "clean_tmp"

\* a harvesting step of document d has started or left a trace
Harvesting(d) ==
    \/ p2[d] \in {"fetch", "correct", "extract_corrected", "extract_raw"}
    \/ fetches[d] > 0
    \/ artifacts[d] # {}

\* C5: a document of the batch is harvested (result pages fetched, raw text and
\* coordinates written, correction, entity extraction) only if its waiter
\* returned Succeeded; after any other return the task ends without any of it.
C5_HarvestOnlyIfSucceeded ==
    \A d \in current_batch :
        /\ Harvesting(d) => outcome[d] = "Succeeded"
        /\ outcome[d] \in {"Failed", "TimedOut"}
              => p2[d] = "done" /\ fetches[d] = 0 /\ artifacts[d] = {}

C5_Witness ==
    \E d, e \in current_batch :
        /\ outcome[d] = "Failed" /\ p2[d] = "done" /\ artifacts[d] = {}
        /\ outcome[e] = "Succeeded" /\ "entities.json" \in artifacts[e]

\* C6: at the end of a batch cycle the keys deleted are exactly the keys of the
\* batch's CleanupSet; the key of a document whose preparation or OCR job failed
\* is not deleted and, once uploaded, is still in the bucket.
C6_DeletedIffInCleanupSet ==
    CycleJustEnded =>
        /\ deleted[batch_index - 1] = CleanupSet(batch_index - 1)
        /\ \A d \in BatchDocs(batch_index - 1) :
              (p1[d] = "failed" \/ outcome[d] = "Failed")
              => /\ key(d) \notin deleted[batch_index - 1]
                 /\ error1[d] = "submit" \/ outcome[d] = "Failed" => key(d) \in bucket

\* C7: after a batch cycle the key of a document of the batch has been deleted if
\* and only if its raw text and coordinates were persisted (Steps 1-2).
C7_DeletedIffRawPersisted ==
    CycleJustEnded =>
        \A d \in BatchDocs(batch_index - 1) :
            key(d) \in deleted[batch_index - 1]
            <=> {"raw.txt", "coords.json"} \subseteq artifacts[d]

\* C8: a failing preparation step never raises out of prepare_file_for_textract;
\* when phase 1 has ended the JobTable holds exactly the documents of the batch
\* whose preparation succeeded (K-1 of them when one failed), each of them has a
\* phase-2 task, and the key of a document whose conversion failed is not among
\* the keys the batch's cleanup deletes.
C8_PreparationFailureIsolated ==
    /\ \A d \in Docs : p1[d] # "raised"
    /\ mainpc \in {"phase2", "clean_tmp", "delete_bucket"} =>
          /\ DOMAIN jobs = {d \in current_batch : p1[d] = "ok"}
          /\ Cardinality({d \in current_batch : p1[d] = "failed"}) = 1
                => Cardinality(DOMAIN jobs) = Cardinality(current_batch) - 1
          /\ \A d \in DOMAIN jobs : p2[d] # "none"
    /\ mainpc = "crashed" => \E d \in Docs : p2[d] = "raised"
    /\ CycleJustEnded =>
          \A d \in BatchDocs(batch_index - 1) :
              error1[d] = "convert" => key(d) \notin deleted[batch_index - 1]

C8_Witness ==
    /\ CycleJustEnded
    /\ batch_index = 2
    /\ error1[1] = "convert"
    /\ DOMAIN jobs = {2}
    /\ p2[2] = "done"
    /\ deleted[1] = {key(2)}

\* C9: an exception raised by one document's process_textract_result does not
\* reach the batch loop: the main thread goes on to the cleanup and the next batch.
C9_HarvestExceptionContained ==
    (\E d \in Docs : p2[d] = "raised") => mainpc # "crashed"

\* C10: a phase-2 task of a batch exists only when every preparation of that
\* batch has finished.
C10_JoinBarrier ==
    \A d \in Docs :
        p2[d] # "none" => \A e \in BatchDocs(BatchOf(d)) : p1[e] \in Finished1

C10_Witness ==
    \E d, e \in current_batch :
        /\ d # e
        /\ p2[d] = "poll"
        /\ p1[e] = "failed"
        /\ p2[e] = "none"

batch_of == [d \in Docs |-> BatchOf(d)]

\* the output directory of document d exists: its preparation has started
PreparationStarted(d) == get_file_paths(files[d]).doc_output_dir \in outdirs

\* C12: batches are processed in partition order without overlap: a task runs
\* only for a document of the batch the loop is at, and the preparation of a
\* document has started only if every earlier batch has had its temporary
\* directory wiped and its remote deletion done.
C12_BatchesStrictlyOrdered ==
    /\ \A d \in Docs :
          (d \in Running1 \/ d \in Running2)
          => batch_of[d] = batch_index /\ mainpc \in {"phase1", "phase2"}
    /\ \A d \in Docs :
          PreparationStarted(d)
          => /\ batch_of[d] <= batch_index
             /\ \A b \in 1..(batch_of[d] - 1) : wiped[b] = 1 /\ purged[b] = 1

C12_Witness ==
    \E d \in Docs :
        /\ batch_of[d] = 2
        /\ p1[d] = "upload"
        /\ wiped[1] = 1 /\ purged[1] = 1

\* the batch cycles that have started
StartedBatches ==
    IF mainpc \in {"setup", "aborted"} THEN {}
    ELSE IF mainpc = "start_batch" THEN 1..(batch_index - 1)
    ELSE 1..Min(batch_index, NumBatches)

\* C13: every batch cycle that starts ends with the teardown whatever the
\* outcomes of its documents: when the run is over, every started batch has had
\* its temporary directory wiped and then its remote deletion done, once each;
\* the deletion never comes before the wipe.
C13_TeardownAlwaysRuns ==
    /\ \A b \in 1..NumBatches : purged[b] <= wiped[b] /\ wiped[b] <= 1
    /\ mainpc \in {"finished", "crashed"}
          => \A b \in StartedBatches : wiped[b] = 1 /\ purged[b] = 1

\* the batches one after the other, in emission order
RECURSIVE Concatenation(_)
Concatenation(bs) ==
    IF bs = <<>> THEN <<>> ELSE bs[1] \o Concatenation(Tail(bs))

\* C14: split_into_batches yields ceil(N/B) batches for N items and batch size
\* B (none for N = 0); every batch but the last has B items, the last has N mod B
\* items, or B when N mod B = 0.
C14_BatchCountAndSizes ==
    sb_pc = "returned" =>
        LET N == Len(sb_items)
            B == sb_size
            n == Len(sb_batches)
        IN  /\ n = (N + B - 1) \div B
            /\ N = 0 => n = 0
            /\ \A k \in 1..(n - 1) : Len(sb_batches[k]) = B
            /\ n > 0 => Len(sb_batches[n]) = (IF N % B = 0 THEN B ELSE N % B)

C14_Witness ==
    /\ sb_pc = "returned"
    /\ Len(sb_items) = 5
    /\ sb_size = 2
    /\ Len(sb_batches) = 3
    /\ Len(sb_batches[3]) = 1

\* C15: the batches of split_into_batches, concatenated in emission order, are
\* the input list: every position of the input is in exactly one batch and the
\* order is kept.
C15_ConcatenationIsInput ==
    sb_pc = "returned" => Concatenation(sb_batches) = sb_items

C15_Witness ==
    /\ sb_pc = "returned"
    /\ sb_items = <<"a", "b", "b", "a", "b">>
    /\ sb_batches = << <<"a", "b", "b">>, <<"a", "b">> >>

\* response i of the job carries a cursor if and only if it is not the last one
CursorIffNotLast ==
    \A i \in 1..Len(hv_responses) :
        hv_responses[i].NextToken # "none" <=> i < Len(hv_responses)

\* the first response without a cursor
FirstWithoutCursor ==
    CHOOSE i \in 1..Len(hv_responses) :
        /\ hv_responses[i].NextToken = "none"
        /\ \A j \in 1..(i - 1) : hv_responses[j].NextToken # "none"

IsLine(block) == block.BlockType = "LINE"

\* the texts of the LINE elements of responses 1..n, in response order
RECURSIVE LinesUpTo(_)
LinesUpTo(n) ==
    IF n = 0 THEN <<>>
    ELSE LET ls == SelectSeq(hv_responses[n].Blocks, IsLine)
         IN  LinesUpTo(n - 1) \o [i \in 1..Len(ls) |-> ls[i].Text]

\* C16: the harvester stops at the first response without a cursor; when
\* response i carries a cursor iff i is not the last, it has fetched every
\* response, one call each, and its line sequence is the concatenation of the
\* LINE elements of the responses in response order, with no WORD element in it.
C16_HarvesterPagination ==
    /\ hv_pc = "loop" => hv_calls <= FirstWithoutCursor
    /\ hv_pc = "saved" =>
          /\ hv_calls = FirstWithoutCursor
          /\ hv_pages = SubSeq(hv_responses, 1, hv_calls)
          /\ hv_lines = LinesUpTo(hv_calls)
          /\ CursorIffNotLast =>
                /\ hv_calls = Len(hv_responses)
                /\ hv_lines = LinesUpTo(Len(hv_responses))

C16_Witness ==
    /\ hv_pc = "saved"
    /\ CursorIffNotLast
    /\ Len(hv_responses) = 2
    /\ hv_calls = 2
    /\ hv_responses[1].Blocks = <<[BlockType |-> "LINE", Text |-> "b"],
                                  [BlockType |-> "WORD", Text |-> "a"]>>
    /\ hv_responses[2].Blocks = <<[BlockType |-> "WORD", Text |-> "a"],
                                  [BlockType |-> "LINE", Text |-> "a"]>>
    /\ hv_lines = <<"b", "a">>

\* the place of a step in a document's chain (conversion, for a file that is not
\* a PDF, comes before the upload)
StepRank(step) ==
    CASE step = "convert" -> 0
      [] step = "upload"  -> 1
      [] step = "submit"  -> 2
      [] step = "poll"    -> 3
      [] step = "harvest" -> 4
      [] step = "correct" -> 5
      [] step = "extract" -> 6

\* C17: in every interleaving the steps of one document start in the order
\* upload, submit, poll, harvest, correct, extract, each at most once and each
\* directly after the one before it, and a step has started only when the step
\* before it has completed: the upload put the key in the bucket, the submission
\* created the job, the waiter returned Succeeded, the harvester wrote the raw
\* text; a phase-2 task exists only for a document whose preparation returned.
C17_ChainStepsInOrder ==
    \A d \in Docs :
        /\ \A i \in 1..Len(trace[d]) :
              /\ i = 1 => StepRank(trace[d][i]) <= 1
              /\ i > 1 => StepRank(trace[d][i]) = StepRank(trace[d][i - 1]) + 1
              /\ trace[d][i] = "submit" => key(d) \in bucket \/ purged[batch_of[d]] = 1
              /\ trace[d][i] = "poll" => JobStatus[d] # "none" /\ p1[d] = "ok"
              /\ trace[d][i] = "harvest" => outcome[d] = "Succeeded"
              /\ trace[d][i] = "correct" => "raw.txt" \in artifacts[d]
        /\ p2[d] # "none" => p1[d] = "ok"

C17_Witness ==
    \E d, e \in current_batch :
        /\ trace[d] = <<"convert", "upload", "submit", "poll", "harvest", "correct", "extract">>
        /\ trace[e] = <<"upload", "submit", "poll">>
        /\ p2[e] = "sleep"

\* Steps 1-2 of the harvester succeeded for document d
RawPersisted(d) == {"raw.txt", "coords.json"} \subseteq artifacts[d]

\* C18: for a document whose raw text and coordinates were persisted, entity
\* extraction is attempted, once: with the corrected text when the correction
\* produced <id>.corrected.txt, with the raw text when it returned nothing; a
\* failed correction leads to the extraction, never past it.
C18_ExtractionAlwaysAttempted ==
    \A d \in Docs :
        /\ (p2[d] = "done" /\ RawPersisted(d))
              => /\ Len(extracted[d]) = 1
                 /\ extracted[d][1].text =
                       (IF "corrected.txt" \in artifacts[d] THEN "corrected" ELSE "raw")
        /\ p2[d] = "extract_raw" => RawPersisted(d) /\ "corrected.txt" \notin artifacts[d]
        /\ p2[d] = "extract_corrected" => RawPersisted(d) /\ "corrected.txt" \in artifacts[d]

C18_Witness ==
    \E d, e \in current_batch :
        /\ p2[d] = "done" /\ RawPersisted(d)
        /\ "corrected.txt" \notin artifacts[d]
        /\ extracted[d] = <<[text |-> "raw", result |-> "json"]>>
        /\ "entities.json" \in artifacts[d]
        /\ extracted[e] = <<[text |-> "corrected", result |-> "json"]>>

C20_AbortWithoutInputDir ==
    ~input_ok =>
        /\ mainpc \in {"setup", "aborted"}
        /\ batch_index = 1
        /\ \A d \in Docs :
              /\ p1[d] = "none" /\ p2[d] = "none"
              /\ trace[d] = <<>>
              /\ JobStatus[d] = "none"
        /\ tmp = {} /\ bucket = {} /\ outdirs = {}
        /\ \A b \in 1..NumBatches : wiped[b] = 0 /\ purged[b] = 0

C20_Witness ==
    /\ ~input_ok
    /\ mainpc = "aborted"

\* the run is over: the loop has ended or an exception has reached the top level
RunOver == mainpc \in {"finished", "crashed"}

\* C21: after a run every document output directory that exists holds both
\* <id>.raw.txt and <id>.corrected.txt, also the directory of a document whose
\* conversion, upload, OCR job or correction failed.
C21_OutputDirsHoldRawAndCorrected ==
    RunOver =>
        \A d \in Docs :
            PreparationStarted(d) => {"raw.txt", "corrected.txt"} \subseteq artifacts[d]

\* C22: distinct files of a batch have distinct document identifiers: no two
\* preparations write the same JobTable key, the same remote key or the same
\* temporary path, and the JobTable ends phase 1 with one entry per prepared
\* file, also when two files differ only in their extension.
C22_DistinctFilesDistinctIdentifiers ==
    /\ \A i, j \in fp_done :
          i # j => /\ fp_writes[i].base_name # fp_writes[j].base_name
                   /\ fp_writes[i].s3_pdf_key # fp_writes[j].s3_pdf_key
                   /\ fp_writes[i].tmp_files \cap fp_writes[j].tmp_files = {}
    /\ fp_pc = "joined" => Cardinality(DOMAIN fp_jobs) = Len(fp_batch)

\* C23: the JobTable changes only in phase 1, where it is populated, and at the
\* start of a batch, where it is emptied; no step taken in phase 2, while a waiter
\* or a harvester of the batch is queued or running, adds, removes or modifies
\* an entry.
C23_JobTableReadOnlyInPhase2 ==
    [][ /\ mainpc = "phase2" => jobs' = jobs
        /\ (\E d \in Docs : p2[d] = "queued" \/ d \in Running2) => jobs' = jobs
        /\ jobs' # jobs => mainpc \in {"start_batch", "phase1"}
        /\ mainpc = "start_batch" /\ mainpc' = "phase1" => jobs' = <<>> ]_vars

C23_Witness ==
    /\ mainpc = "phase2"
    /\ batch_index = 2
    /\ DOMAIN jobs = {3}
    /\ jobs[3] = job_info(3)
    /\ p2[3] = "correct"

\* C24: the units of work executing at the same time, preparations in phase 1
\* and waiter-plus-harvester compositions in phase 2, are never more than the
\* pool size, also for a batch larger than the pool.
C24_ConcurrencyBoundedByPool ==
    Cardinality(PoolRunning) <= pl_workers

C24_Witness ==
    /\ pl_tasks > pl_workers
    /\ pl_phase = "phase2"
    /\ Cardinality(PoolRunning) = pl_workers
    /\ \E t \in DOMAIN pl_state : pl_state[t] = "queued"

\* a waiter has made as many status queries as are followed here and its job
\* is still IN_PROGRESS
StillPolling == \E d \in Docs : p2[d] = "poll" /\ polls[d] = MaxPolls

\* C25: in a run that passes setup every eligible document eventually has its
\* preparation attempted, whatever fails for other documents of its batch or of
\* earlier batches, and a preparation is attempted only for a document that has
\* not had one.  (Runs in which a job stays IN_PROGRESS for as long as it is
\* followed are left aside.)
C25_EveryDocumentPreparedOnce ==
    /\ [][\A d \in Docs :
            (p1[d] = "queued" /\ p1'[d] = "convert") => ~PreparationStarted(d)]_vars
    /\ (mainpc = "start_batch" /\ batch_index = 1)
          ~> ((\A d \in Docs : PreparationStarted(d)) \/ StillPolling)

\* the steps of the chain of document d that have started
StepsOf(d) == {trace[d][i] : i \in 1..Len(trace[d])}

\* C26: the preparation short-circuits per document: the conversion is invoked
\* exactly for the files that are not PDFs; after a failed conversion neither the
\* upload nor the submission is made; after a failed upload no job is submitted;
\* a JobRecord exists only for a document all of whose steps succeeded.
C26_PreparationShortCircuits ==
    \A d \in Docs :
        LET steps == StepsOf(d)
        IN  /\ "convert" \in steps => ~IsPdf(d)
            /\ "upload" \in steps /\ ~IsPdf(d) => "convert" \in steps
            /\ error1[d] = "convert"
                  => /\ trace[d] = <<"convert">>
                     /\ key(d) \notin bucket
                     /\ JobStatus[d] = "none"
            /\ error1[d] = "upload"
                  => /\ "submit" \notin steps
                     /\ key(d) \notin bucket
                     /\ JobStatus[d] = "none"
            /\ error1[d] # "none" => p1[d] = "failed" /\ d \notin DOMAIN jobs
            /\ d \in DOMAIN jobs
                  => /\ error1[d] = "none"
                     /\ {"upload", "submit"} \subseteq steps
                     /\ JobStatus[d] # "none"

C26_Witness ==
    /\ mainpc = "phase2"
    /\ error1[1] = "convert"
    /\ trace[1] = <<"convert">>
    /\ DOMAIN jobs = {2}
    /\ trace[2] = <<"upload", "submit">>

\* C27: the temporary directory is not wiped while a preparation or a harvesting
\* task of the batch is queued or running: clean_tmp_folder runs only when both
\* pools of the batch have joined, and the PDF converted for a document is in
\* the directory until its upload has finished.
C27_NoWipeWhileTasksRun ==
    /\ \A d \in Docs :
          (p1[d] = "queued" \/ p2[d] = "queued" \/ d \in Running1 \/ d \in Running2)
          => wiped[batch_of[d]] = 0 /\ mainpc \in {"phase1", "phase2"}
    /\ \A d \in Docs :
          (p1[d] = "upload" /\ ~IsPdf(d)) => get_file_paths(files[d]).pdf_file \in tmp
    /\ mainpc \in {"clean_tmp", "delete_bucket"}
          => \A d \in current_batch : p1[d] \in Finished1 /\ p2[d] \in Finished2 \cup {"none"}

C27_Witness ==
    /\ mainpc = "delete_bucket"
    /\ wiped[1] = 1
    /\ tmp = {}
    /\ trace[1] = <<"convert", "upload", "submit", "poll", "harvest", "correct", "extract">>
    /\ p2[2] = "done"

====
